---- MODULE Spec2Model ----
(***************************************************************************)
(* A model of the script monitor of src/server.py: the polling loop        *)
(* monitor_scripts, the in-memory table script_status, the path resolver   *)
(* get_script_path, the resource probe and the two event sinks             *)
(* (send_discord_alert, log_script_event).                                 *)
(*                                                                         *)
(* One loop iteration ("tick") is split at the points where the code calls *)
(* a collaborator, so that the states between two calls are visible:       *)
(*   scan -> probe -> start loop (insert / notify / log per script)        *)
(*        -> stop loop (notify / log+del per key) -> sleep                 *)
(* and, when an exception escapes the try body, except -> cooldown.        *)
(*                                                                         *)
(* Spec is the loop on a host of plain interpreters, the webhook and the   *)
(* table script_event included. SpecFn calls get_script_path,              *)
(* find_scrapy_project_root and check_system_resources once each on        *)
(* enumerated arguments. SpecAll runs the loop on a host of scrapy jobs    *)
(* next to those calls.                                                    *)
(***************************************************************************)
EXTENDS Integers, Sequences, FiniteSets, TLC

\* ------------------------------------------------------------------ bounds
MaxTicks == 3

\* Longest command line handed to get_script_path on its own.
MaxCmdLen == 5

Pids == {100, 101}

\* ------------------------------------------------------- program constants
PollSleep == 4
CooldownSleep == 60

NoneVal == "<None>"
Interactive == "<interactive>"

\* ------------------------------------------------------------------- state
VARIABLES
  pc,               \* where the loop stands
  tick,             \* number of the current loop iteration, from 1
  now,              \* wall clock, seconds since the service started
  script_status,    \* the dict script_status, in insertion order
  procs,            \* the process table met by the scan, until the scan loop is left
  running_scripts,  \* the list built by the scan of the current tick
  resources,        \* what check_system_resources returned this tick
  idx,              \* position of the running for loop
  keys,             \* list(script_status.keys()) taken at line 205
  log,              \* every call made to a sink, in order
  exc,              \* the exception that escaped the try body this tick
  db_result,        \* outcome of the latest log_script_event call this tick
  pre_status,       \* script_status as it was when the tick began
  prev_snapshot,    \* pids of the previous tick's completed scan
  send_result,      \* what the webhook did with the notification just sent
  cfg_dirs,         \* the directories of the host that hold a scrapy.cfg
  host_kinds,       \* the kinds of process the host runs
  call,             \* a single call of a function, examined on its own
  db                \* the rows of the table script_event

\* ---------------------------------------------------------- small helpers
Range(s) == {s[i] : i \in 1..Len(s)}

\* Ascending enumeration of a finite set of integers (process_iter yields
\* the host's processes in pid order).
RECURSIVE SortedSeq(_)
SortedSeq(S) ==
  IF S = {} THEN <<>>
  ELSE LET m == CHOOSE x \in S : \A y \in S : x <= y
       IN <<m>> \o SortedSeq(S \ {m})

\* ------------------------------------------------- strings (str methods)
\* str.endswith(".py"), os.path.isabs, str.endswith("python") and
\* os.path.abspath on the tokens the model uses.
PyTokens == {"/jobs/./a.py", "/jobs/a.py", "b.py", "/w/b.py"}
AbsTokens == {"/jobs/./a.py", "/jobs/a.py", "/w/b.py", "/usr/bin/python"}
PythonTokens == {"python", "/usr/bin/python"}

EndsWithPy(tok) == tok \in PyTokens
IsAbs(tok) == tok \in AbsTokens
EndsWithPython(tok) == tok \in PythonTokens

\* os.path.abspath: normalises "." components of an absolute path.
AbsPath(p) == IF p = "/jobs/./a.py" THEN "/jobs/a.py" ELSE p

\* os.path.join(cwd, rel) for a relative second argument.
PathJoin(cwd, rel) == IF IsAbs(rel) THEN rel ELSE cwd \o "/" \o rel

\* ------------------------------------------------------------ file system
\* The directories of the modelled host and os.path.dirname on them.
Dirs == {"/", "/w", "/proj", "/proj/sub", "/proj/sub/deep"}
DirName(d) ==
  CASE d = "/proj/sub/deep" -> "/proj/sub"
    [] d = "/proj/sub" -> "/proj"
    [] d = "/proj" -> "/"
    [] d = "/w" -> "/"
    [] OTHER -> d

\* Directories holding a scrapy.cfg.
CfgDirs == cfg_dirs

\* find_spider_file_by_name: the first .py file under the root whose text
\* declares a spider of that name, or None.
find_spider_file_by_name(root, spider_name) ==
  IF root = "/proj" /\ spider_name = "news"
  THEN "/proj/spiders/news_spider.py"
  ELSE NoneVal

\* Mutant of find_scrapy_project_root: only the start directory is looked at.
find_scrapy_project_root_no_walk(start_dir) ==
  IF start_dir \in CfgDirs THEN start_dir ELSE NoneVal

RECURSIVE find_scrapy_project_root(_)
find_scrapy_project_root(start_dir) ==
  IF start_dir \in CfgDirs THEN start_dir
  ELSE IF DirName(start_dir) = start_dir THEN NoneVal
  ELSE find_scrapy_project_root(DirName(start_dir))

\* ------------------------------------------------------------ get_script_path
IndexOf(s, x) == CHOOSE i \in 1..Len(s) : s[i] = x /\ \A j \in 1..(i - 1) : s[j] # x

ScrapyBranch(cmdline, cwd) ==
  LET crawl_idx == IndexOf(cmdline, "crawl")
  IN IF crawl_idx + 1 > Len(cmdline) THEN NoneVal          \* IndexError
     ELSE LET spider_name == cmdline[crawl_idx + 1]
              project_root == find_scrapy_project_root(cwd)
          IN IF project_root = NoneVal
             THEN "Spider: " \o spider_name \o " (Project root not found)"
             ELSE LET spider_file == find_spider_file_by_name(project_root, spider_name)
                  IN IF spider_file # NoneVal THEN spider_file
                     ELSE "Not found in " \o project_root

FirstAbsPy(cmdline) ==
  LET hits == {i \in 1..Len(cmdline) : EndsWithPy(cmdline[i]) /\ IsAbs(cmdline[i])}
  IN IF hits = {} THEN NoneVal
     ELSE cmdline[CHOOSE i \in hits : \A j \in hits : i <= j]

\* Line 78.
IsScrapyCommand(cmdline) ==
  "-m" \in Range(cmdline) /\ "scrapy" \in Range(cmdline) /\ "crawl" \in Range(cmdline)

\* Mutant of IsInteractive: the -i flag is not looked at.
IsInteractiveWithoutFlag(cmdline) == ~(\E a \in Range(cmdline) : EndsWithPy(a))

\* Line 104.
IsInteractive(cmdline) ==
  "-i" \in Range(cmdline) \/ ~(\E a \in Range(cmdline) : EndsWithPy(a))

\* Mutant of get_script_path: the loop of lines 97-99 comes before the
\* scrapy detection of line 78.
get_script_path_direct_first(proc) ==
  IF proc.access # "ok" THEN NoneVal
  ELSE LET cmdline == proc.cmdline
           cwd == proc.cwd
       IN IF FirstAbsPy(cmdline) # NoneVal
          THEN AbsPath(FirstAbsPy(cmdline))
          ELSE IF IsScrapyCommand(cmdline)
          THEN ScrapyBranch(cmdline, cwd)
          ELSE IF Len(cmdline) > 1 /\ EndsWithPython(cmdline[1]) /\ EndsWithPy(cmdline[2])
          THEN AbsPath(PathJoin(cwd, cmdline[2]))
          ELSE IF IsInteractive(cmdline)
          THEN Interactive
          ELSE NoneVal

\* proc: [name, cmdline, cwd, access]; access = "denied" / "gone" makes
\* proc.cmdline() raise psutil.AccessDenied / psutil.NoSuchProcess.
get_script_path(proc) ==
  IF proc.access # "ok" THEN NoneVal
  ELSE LET cmdline == proc.cmdline
           cwd == proc.cwd
       IN IF IsScrapyCommand(cmdline)
          THEN ScrapyBranch(cmdline, cwd)
          ELSE IF FirstAbsPy(cmdline) # NoneVal
          THEN AbsPath(FirstAbsPy(cmdline))
          ELSE IF Len(cmdline) > 1 /\ EndsWithPython(cmdline[1]) /\ EndsWithPy(cmdline[2])
          THEN AbsPath(PathJoin(cwd, cmdline[2]))
          ELSE IF IsInteractive(cmdline)
          THEN Interactive
          ELSE NoneVal

\* -------------------------------------------------------- host processes
NameDenied == "<name:None>"

\* str.lower and the substring test of line 166.
Lower(name) == IF name = "Python" THEN "python" ELSE name
ContainsPython(s) == s \in {"python", "python.exe"}

ProcKinds ==
  { [name |-> "Python", cmdline |-> <<"python", "/jobs/./a.py">>, cwd |-> "/w", access |-> "ok"],
    [name |-> "python.exe", cmdline |-> <<"python", "b.py">>, cwd |-> "/w", access |-> "ok"],
    [name |-> "python.exe", cmdline |-> <<"python">>, cwd |-> "/w", access |-> "ok"],
    [name |-> "python.exe", cmdline |-> <<"python", "-u", "b.py">>, cwd |-> "/w", access |-> "ok"],
    [name |-> "python.exe", cmdline |-> <<"python", "b.py">>, cwd |-> "/w", access |-> "denied"],
    [name |-> NameDenied, cmdline |-> <<"python", "b.py">>, cwd |-> "/w", access |-> "denied"],
    [name |-> "bash", cmdline |-> <<"bash">>, cwd |-> "/w", access |-> "ok"] }

\* A host that runs scrapy jobs: a crawl started outside any project and
\* a process whose name cannot be read.
CrawlKinds ==
  { [name |-> "python.exe", cmdline |-> <<"python", "-m", "scrapy", "crawl", "news">>,
     cwd |-> "/w", access |-> "ok"],
    [name |-> NameDenied, cmdline |-> <<"python", "b.py">>, cwd |-> "/w", access |-> "denied"] }

\* The process tables a scan can meet: any subset of the pids, each pid
\* running one kind of process.
HostTables == UNION {[D -> host_kinds] : D \in SUBSET Pids}

\* The file system and the single-call harness are not touched by the loop.
env == <<cfg_dirs, host_kinds, call>>

vars == <<pc, tick, now, script_status, procs, running_scripts, resources, idx,
          keys, log, exc, db_result, pre_status, prev_snapshot, send_result, env, db>>

\* ----------------------------------------------------- dict operations
DictKeys(d) == [i \in 1..Len(d) |-> d[i].pid]
KeySet(d) == {d[i].pid : i \in 1..Len(d)}

\* Mutant of HasKey: the membership test looks at the wrong collection and
\* never finds the pid.
HasKeyNever(d, k) == FALSE

\* pid in script_status
HasKey(d, k) == k \in KeySet(d)

\* script_status[pid]
DictGet(d, k) == d[CHOOSE i \in 1..Len(d) : d[i].pid = k]

\* script_status[pid] = {...}: a new key goes last, an old one keeps its place.
DictSet(d, k, path, t) ==
  LET e == [pid |-> k, script_path |-> path, start_time |-> t]
  IN IF k \in KeySet(d)
     THEN [i \in 1..Len(d) |-> IF d[i].pid = k THEN e ELSE d[i]]
     ELSE Append(d, e)

\* Mutant of DictDel: popitem(), which drops the entry inserted last
\* instead of the entry of the pid.
DictDelLast(d, k) == SubSeq(d, 1, Len(d) - 1)

\* del script_status[pid]
DictDel(d, k) == SelectSeq(d, LAMBDA e : e.pid # k)

\* ------------------------------------------------------------- resources
FullResources == [keys |-> {"ram", "cpu", "drives"}]
EmptyResources == [keys |-> {}]

\* The psutil calls of check_system_resources in the order they are
\* evaluated: virtual_memory, cpu_times_percent and disk_partitions (lines
\* 116-118), then cpu_percent/cpu_count (127-129) while the dict is built,
\* then disk_usage of each drive (133-135).
SourceOrder == <<"ram", "cpu_times", "partitions", "cpu", "drive_usage">>

MetricSources == Range(SourceOrder)

\* Mutant of CaughtByExcept: the failure of a drive's usage, raised inside
\* the list comprehension, is taken to be outside the try.
CaughtOutsideComprehension(source) == source # "drive_usage"

\* Line 143: except Exception, around the whole body (lines 115-142).
CaughtByExcept(source) == TRUE

\* check_system_resources: the metrics, or {} when a metric source raises.
\* The first failing source ends the try body; the later ones are not called.
check_system_resources(failing) ==
  LET bad == {i \in DOMAIN SourceOrder : SourceOrder[i] \in failing}
  IN IF bad = {}
     THEN [raised |-> FALSE, value |-> FullResources]
     ELSE LET first == CHOOSE i \in bad : \A j \in bad : i <= j
          IN IF CaughtByExcept(SourceOrder[first])
             THEN [raised |-> FALSE, value |-> EmptyResources]
             ELSE [raised |-> TRUE, value |-> EmptyResources]

\* ------------------------------------------------------------------ scan
\* Truthiness of a resolver result: None and "" are false.
Truthy(sp) == sp # NoneVal /\ sp # ""

\* Mutant of Tracked: the comparison with "<interactive>" is left out.
TrackedIfTruthy(sp) == Truthy(sp)

\* Line 168.
Tracked(sp) == Truthy(sp) /\ sp # Interactive

\* The list the for loop of lines 165-175 builds over the processes order[1..n].
RECURSIVE ScanList(_, _, _)
ScanList(table, order, n) ==
  IF n = 0 THEN <<>>
  ELSE LET pid == order[n]
           proc == table[pid]
           rest == ScanList(table, order, n - 1)
       IN IF ContainsPython(Lower(proc.name)) /\ Tracked(get_script_path(proc))
          THEN Append(rest, [pid |-> pid, script_path |-> get_script_path(proc)])
          ELSE rest

\* Positions of the processes whose info["name"] is None: .lower() raises there.
NameFailures(table, order) == {i \in 1..Len(order) : table[order[i]].name = NameDenied}

\* Mutant of current_pids: the set is built from an empty list.
current_pids_empty == {}

current_pids == {running_scripts[i].pid : i \in 1..Len(running_scripts)}

\* ------------------------------------------------------------------ events
Event(sink, type, pid, path, start) ==
  [sink |-> sink, type |-> type, pid |-> pid, tick |-> tick,
   path |-> path, start |-> start, time |-> now]

\* The host the loop runs on has one scrapy project, /proj.
HostCfgDirs == {"/proj"}

\* No function is examined on its own while the loop runs.
NoCall ==
  [fn |-> "none", proc |-> [name |-> "", cmdline |-> <<>>, cwd |-> "/", access |-> "ok"],
   dir |-> "/", failing |-> {}, done |-> TRUE, raised |-> FALSE,
   value |-> NoneVal, snapshot |-> EmptyResources]

TryPcs == {"scan", "probe", "start", "start_notify", "start_log",
           "stop", "stop_notify", "stop_log", "sleep"}
HandlerPcs == {"except", "cooldown"}

Init ==
  /\ pc = "scan"
  /\ tick = 1
  /\ now = 0
  /\ script_status = <<>>
  /\ procs = <<>>
  /\ running_scripts = <<>>
  /\ resources = EmptyResources
  /\ idx = 1
  /\ keys = <<>>
  /\ log = <<>>
  /\ exc = "none"
  /\ db_result = "none"
  /\ pre_status = <<>>
  /\ prev_snapshot = {}
  /\ send_result = "none"
  /\ cfg_dirs = HostCfgDirs
  /\ host_kinds = ProcKinds
  /\ call = NoCall
  /\ db = <<>>

\* Mutant of Scan: the process whose name is None ends the enumeration
\* quietly and the tick goes on with the list built so far.
ScanTolerant ==
  /\ pc = "scan"
  /\ tick <= MaxTicks
  /\ \E table \in HostTables :
       LET order == SortedSeq(DOMAIN table)
           bad == NameFailures(table, order)
       IN /\ procs' = table
          /\ IF bad = {}
             THEN running_scripts' = ScanList(table, order, Len(order))
             ELSE LET k == CHOOSE i \in bad : \A j \in bad : i <= j
                  IN running_scripts' = ScanList(table, order, k - 1)
          /\ exc' = "none"
          /\ pc' = "probe"
  /\ prev_snapshot' = IF exc = "AttributeError" THEN {} ELSE current_pids
  /\ pre_status' = script_status
  /\ db_result' = "none"
  /\ send_result' = "none"
  /\ UNCHANGED <<tick, now, script_status, resources, idx, keys, log, env, db>>

\* Lines 164-175: enumerate, filter, resolve.
Scan ==
  /\ pc = "scan"
  /\ tick <= MaxTicks
  /\ \E table \in HostTables :
       LET order == SortedSeq(DOMAIN table)
           bad == NameFailures(table, order)
       IN /\ procs' = table
          /\ IF bad = {}
             THEN /\ running_scripts' = ScanList(table, order, Len(order))
                  /\ exc' = "none"
                  /\ pc' = "probe"
             ELSE LET k == CHOOSE i \in bad : \A j \in bad : i <= j
                  IN /\ running_scripts' = ScanList(table, order, k - 1)
                     /\ exc' = "AttributeError"
                     /\ pc' = "except"
  /\ prev_snapshot' = IF exc = "AttributeError" THEN {} ELSE current_pids
  /\ pre_status' = script_status
  /\ db_result' = "none"
  /\ send_result' = "none"
  /\ UNCHANGED <<tick, now, script_status, resources, idx, keys, log, env, db>>

\* Line 178. The process handles of the scan are not used from here on.
Probe ==
  /\ pc = "probe"
  /\ \E failing \in SUBSET MetricSources :
       LET r == check_system_resources(failing)
       IN IF r.raised
          THEN pc' = "except" /\ exc' = "ProbeError" /\ resources' = resources
          ELSE pc' = "start" /\ exc' = exc /\ resources' = r.value
  /\ idx' = 1
  /\ procs' = <<>>
  /\ UNCHANGED <<tick, now, script_status, running_scripts, keys, log,
                 db_result, pre_status, prev_snapshot, send_result, env, db>>

\* ------------------------------------------------------- started scripts
\* Mutant of StartSkip: the entry of a known pid takes the path the snapshot
\* lists it under.
StartSkipRefresh ==
  /\ pc = "start"
  /\ idx <= Len(running_scripts)
  /\ HasKey(script_status, running_scripts[idx].pid)
  /\ script_status' = DictSet(script_status, running_scripts[idx].pid,
                              running_scripts[idx].script_path,
                              DictGet(script_status, running_scripts[idx].pid).start_time)
  /\ idx' = idx + 1
  /\ UNCHANGED <<pc, tick, now, procs, running_scripts, resources,
                 keys, log, exc, db_result, pre_status, prev_snapshot, send_result, env, db>>

\* Lines 181-183: the script's pid is already a key, nothing happens.
StartSkip ==
  /\ pc = "start"
  /\ idx <= Len(running_scripts)
  /\ HasKey(script_status, running_scripts[idx].pid)
  /\ idx' = idx + 1
  /\ UNCHANGED <<pc, tick, now, script_status, procs, running_scripts, resources,
                 keys, log, exc, db_result, pre_status, prev_snapshot, send_result, env, db>>

\* Lines 183-190: a new pid is entered in script_status, then the drives text
\* is built from resources['drives'], a KeyError when the probe returned {}.
StartInsert ==
  /\ pc = "start"
  /\ idx <= Len(running_scripts)
  /\ ~HasKey(script_status, running_scripts[idx].pid)
  /\ script_status' = DictSet(script_status, running_scripts[idx].pid,
                              running_scripts[idx].script_path, now)
  /\ IF "drives" \in resources.keys
     THEN pc' = "start_notify" /\ exc' = exc
     ELSE pc' = "except" /\ exc' = "KeyError"
  /\ UNCHANGED <<tick, now, procs, running_scripts, resources, idx, keys, log,
                 db_result, pre_status, prev_snapshot, send_result, env, db>>

\* What requests.post does in send_discord_message (discord_messages.py
\* 11-16): status 204, another status, or an exception of the transport.
SendOutcomes == {"ok", "http_error", "exception"}

SendFailures == SendOutcomes \ {"ok"}

\* Mutant of SendRaises: the transport's exception reaches the caller.
SendRaisesOnException(outcome) == outcome = "exception"

\* discord_messages.py 13-16 prints a status other than 204 and catches
\* Exception; server.py 150-154 catches Exception again. Nothing is raised
\* to the monitoring loop, and there is no second post.
SendRaises(outcome) == FALSE

\* send_discord_alert (lines 148-154) with send_discord_message
\* (discord_messages.py 6-16): one post is made; its outcome is a local of
\* the call; send_result keeps the latest one of the tick.
send_discord_alert(type, pid, path, start, outcome) ==
  /\ log' = Append(log, Event("notify", type, pid, path, start))
  /\ send_result' = outcome

\* Lines 192-200.
StartNotify ==
  /\ pc = "start_notify"
  /\ \E outcome \in SendOutcomes :
       /\ LET script == running_scripts[idx]
          IN send_discord_alert("Start", script.pid, script.script_path,
                                DictGet(script_status, script.pid).start_time,
                                outcome)
       /\ IF SendRaises(outcome)
          THEN pc' = "except" /\ exc' = "RequestException"
          ELSE pc' = "start_log" /\ exc' = exc
  /\ UNCHANGED <<tick, now, script_status, procs, running_scripts, resources, idx,
                 keys, db_result, pre_status, prev_snapshot, env, db>>

\* log_script_event (lines 229-259). get_db_connection is called outside the
\* try: a pymysql error of connect() leaves the function ("connect_error");
\* an error of execute/commit is caught and printed ("exec_error").
DbOutcomes == {"ok", "exec_error", "connect_error"}

Raises(outcome) == outcome = "connect_error"

\* The value of the column pid is str(script_status[pid]) (lines 201 and
\* 215): the text of the entry, its path and its start time. Two entries
\* never share that text, their datetime.now() values differ; the pid kept
\* in the key stands for that difference.
RowKey(pid, path, start) == [pid |-> pid, script_path |-> path, start_time |-> start]

\* Lines 241-246: INSERT of a row with event_type 'start'.
Insert(rows, k) == Append(rows, [key |-> k, event_type |-> "start", end_time |-> -1])

\* Lines 247-254: UPDATE ... WHERE pid = %s AND event_type = 'start'.
Update(rows, k, t) ==
  [i \in DOMAIN rows |->
     IF rows[i].key = k /\ rows[i].event_type = "start"
     THEN [rows[i] EXCEPT !.event_type = "end", !.end_time = t]
     ELSE rows[i]]

log_script_event(type, pid, path, start, outcome) ==
  /\ log' = Append(log, Event("persist", type, pid, path, start))
  /\ db_result' = outcome
  /\ db' = IF outcome # "ok" THEN db
           ELSE IF type = "Start" THEN Insert(db, RowKey(pid, path, start))
           ELSE Update(db, RowKey(pid, path, start), now)

\* Line 201.
StartLog ==
  /\ pc = "start_log"
  /\ \E outcome \in DbOutcomes :
       /\ LET e == DictGet(script_status, running_scripts[idx].pid)
          IN log_script_event("Start", e.pid, e.script_path, e.start_time, outcome)
       /\ IF Raises(outcome)
          THEN pc' = "except" /\ exc' = "OperationalError" /\ idx' = idx
          ELSE pc' = "start" /\ exc' = exc /\ idx' = idx + 1
  /\ UNCHANGED <<tick, now, script_status, procs, running_scripts, resources,
                 keys, pre_status, prev_snapshot, send_result, env>>

\* Lines 204-205: the start loop is over; the keys of script_status are listed.
StartDone ==
  /\ pc = "start"
  /\ idx > Len(running_scripts)
  /\ keys' = DictKeys(script_status)
  /\ idx' = 1
  /\ pc' = "stop"
  /\ UNCHANGED <<tick, now, script_status, procs, running_scripts, resources, log,
                 exc, db_result, pre_status, prev_snapshot, send_result, env, db>>

\* ------------------------------------------------------- stopped scripts
\* Line 206: the pid is still running.
StopSkip ==
  /\ pc = "stop"
  /\ idx <= Len(keys)
  /\ keys[idx] \in current_pids
  /\ idx' = idx + 1
  /\ UNCHANGED <<pc, tick, now, script_status, procs, running_scripts, resources,
                 keys, log, exc, db_result, pre_status, prev_snapshot, send_result, env, db>>

\* Lines 206-214.
StopNotify ==
  /\ pc = "stop"
  /\ idx <= Len(keys)
  /\ keys[idx] \notin current_pids
  /\ \E outcome \in SendOutcomes :
       /\ LET e == DictGet(script_status, keys[idx])
          IN send_discord_alert("Stop", e.pid, e.script_path, e.start_time, outcome)
       /\ IF SendRaises(outcome)
          THEN pc' = "except" /\ exc' = "RequestException"
          ELSE pc' = "stop_log" /\ exc' = exc
  /\ UNCHANGED <<tick, now, script_status, procs, running_scripts, resources, idx,
                 keys, db_result, pre_status, prev_snapshot, env, db>>

\* Lines 215-216: the end record, then del script_status[pid]; the del is
\* not reached when log_script_event raises.
StopLog ==
  /\ pc = "stop_log"
  /\ \E outcome \in DbOutcomes :
       /\ LET e == DictGet(script_status, keys[idx])
          IN log_script_event("Stop", e.pid, e.script_path, e.start_time, outcome)
       /\ IF Raises(outcome)
          THEN /\ pc' = "except" /\ exc' = "OperationalError" /\ idx' = idx
               /\ script_status' = script_status
          ELSE /\ pc' = "stop" /\ exc' = exc /\ idx' = idx + 1
               /\ script_status' = DictDel(script_status, keys[idx])
  /\ UNCHANGED <<tick, now, procs, running_scripts, resources, keys,
                 pre_status, prev_snapshot, send_result, env>>

StopDone ==
  /\ pc = "stop"
  /\ idx > Len(keys)
  /\ pc' = "sleep"
  /\ UNCHANGED <<tick, now, script_status, procs, running_scripts, resources, idx,
                 keys, log, exc, db_result, pre_status, prev_snapshot, send_result, env, db>>

\* Line 218.
Sleep ==
  /\ pc = "sleep"
  /\ now' = now + PollSleep
  /\ tick' = tick + 1
  /\ pc' = "scan"
  /\ UNCHANGED <<script_status, procs, running_scripts, resources, idx, keys, log,
                 exc, db_result, pre_status, prev_snapshot, send_result, env, db>>

\* ------------------------------------------------- critical-error handler
\* Lines 223-225: the error is logged and one alert is sent. The locals of
\* the aborted scan are dead from here on.
HandleError ==
  /\ pc = "except"
  /\ \E outcome \in SendOutcomes :
       /\ send_discord_alert("Alert", 0, exc, 0, outcome)
       /\ pc' = IF SendRaises(outcome) THEN "crashed" ELSE "cooldown"
  /\ procs' = <<>>
  /\ UNCHANGED <<tick, now, script_status, running_scripts, resources, idx,
                 keys, exc, db_result, pre_status, prev_snapshot, env, db>>

\* Mutant of Cooldown: the handler leaves the loop instead of sleeping.
CooldownExit ==
  /\ pc = "cooldown"
  /\ pc' = "stopped"
  /\ UNCHANGED <<tick, now, script_status, procs, running_scripts, resources, idx,
                 keys, log, exc, db_result, pre_status, prev_snapshot, send_result, env, db>>

\* Line 226, then the while loop starts the next iteration.
Cooldown ==
  /\ pc = "cooldown"
  /\ now' = now + CooldownSleep
  /\ tick' = tick + 1
  /\ pc' = "scan"
  /\ UNCHANGED <<script_status, procs, running_scripts, resources, idx, keys, log,
                 exc, db_result, pre_status, prev_snapshot, send_result, env, db>>

\* ------------------------------------------------------------ stop signal
\* Lines 220-222: a KeyboardInterrupt raised inside the try body is caught,
\* logged, and the loop is left.
InterruptInTry ==
  /\ pc \in TryPcs
  /\ pc' = "stopped"
  /\ UNCHANGED <<tick, now, script_status, procs, running_scripts, resources, idx,
                 keys, log, exc, db_result, pre_status, prev_snapshot, send_result, env, db>>

\* A KeyboardInterrupt raised inside the except clause of lines 223-226 is
\* not caught by the sibling clause of line 220: it leaves monitor_scripts
\* as an unhandled exception.
InterruptInHandler ==
  /\ pc \in HandlerPcs
  /\ pc' = "crashed"
  /\ UNCHANGED <<tick, now, script_status, procs, running_scripts, resources, idx,
                 keys, log, exc, db_result, pre_status, prev_snapshot, send_result, env, db>>

Next ==
  \/ Scan
  \/ Probe
  \/ StartSkip
  \/ StartInsert
  \/ StartNotify
  \/ StartLog
  \/ StartDone
  \/ StopSkip
  \/ StopNotify
  \/ StopLog
  \/ StopDone
  \/ Sleep
  \/ HandleError
  \/ Cooldown
  \/ InterruptInTry
  \/ InterruptInHandler

Spec == Init /\ [][Next]_vars

\* =================================================================
\* The functions of the module, each called once on its own
\* =================================================================
\* The words a command line is made of, and the command lines.
Tokens == {"python", "-m", "scrapy", "crawl", "news", "-i", "b.py", "/jobs/./a.py"}

CmdLines == UNION {[1..n -> Tokens] : n \in 0..MaxCmdLen}

\* The working directories and the scrapy.cfg placements a resolved
\* process is tried with.
Cwds == {"/w", "/proj/sub/deep"}

CfgChoices == {{}, {"/proj"}, {"/proj", "/proj/sub"}}

GetScriptPathCalls ==
  {[NoCall EXCEPT !.fn = "get_script_path", !.done = FALSE,
                  !.proc = [name |-> "python", cmdline |-> c, cwd |-> d, access |-> "ok"]]
     : c \in CmdLines, d \in Cwds}
  \cup
  {[NoCall EXCEPT !.fn = "get_script_path", !.done = FALSE,
                  !.proc = [name |-> "python", cmdline |-> <<"python", "b.py">>,
                            cwd |-> "/w", access |-> a]]
     : a \in {"denied", "gone"}}

FindRootCalls ==
  {[NoCall EXCEPT !.fn = "find_scrapy_project_root", !.done = FALSE, !.dir = d]
     : d \in Dirs}

CheckResourcesCalls ==
  {[NoCall EXCEPT !.fn = "check_system_resources", !.done = FALSE, !.failing = f]
     : f \in SUBSET MetricSources}

InitFn ==
  /\ pc = "call"
  /\ tick = 1
  /\ now = 0
  /\ script_status = <<>>
  /\ procs = <<>>
  /\ running_scripts = <<>>
  /\ resources = EmptyResources
  /\ idx = 1
  /\ keys = <<>>
  /\ log = <<>>
  /\ exc = "none"
  /\ db_result = "none"
  /\ pre_status = <<>>
  /\ prev_snapshot = {}
  /\ send_result = "none"
  /\ host_kinds = ProcKinds
  /\ call \in GetScriptPathCalls \cup FindRootCalls \cup CheckResourcesCalls
  /\ db = <<>>
  /\ cfg_dirs \in CASE call.fn = "get_script_path" -> CfgChoices
                   [] call.fn = "find_scrapy_project_root" -> SUBSET Dirs
                   [] OTHER -> {HostCfgDirs}

loop == <<pc, tick, now, script_status, procs, running_scripts, resources, idx,
          keys, log, exc, db_result, pre_status, prev_snapshot, send_result, db>>

CallGetScriptPath ==
  /\ pc = "call" /\ ~call.done /\ call.fn = "get_script_path"
  /\ call' = [call EXCEPT !.done = TRUE, !.value = get_script_path(call.proc)]
  /\ UNCHANGED <<loop, cfg_dirs, host_kinds>>

CallFindRoot ==
  /\ pc = "call" /\ ~call.done /\ call.fn = "find_scrapy_project_root"
  /\ call' = [call EXCEPT !.done = TRUE, !.value = find_scrapy_project_root(call.dir)]
  /\ UNCHANGED <<loop, cfg_dirs, host_kinds>>

CallCheckResources ==
  /\ pc = "call" /\ ~call.done /\ call.fn = "check_system_resources"
  /\ LET r == check_system_resources(call.failing)
     IN call' = [call EXCEPT !.done = TRUE, !.raised = r.raised, !.snapshot = r.value]
  /\ UNCHANGED <<loop, cfg_dirs, host_kinds>>

NextFn ==
  \/ CallGetScriptPath
  \/ CallFindRoot
  \/ CallCheckResources

SpecFn == InitFn /\ [][NextFn]_vars

\* The monitoring loop on a host that runs scrapy jobs, and the single
\* calls, side by side.
InitCrawl ==
  /\ pc = "scan"
  /\ tick = 1
  /\ now = 0
  /\ script_status = <<>>
  /\ procs = <<>>
  /\ running_scripts = <<>>
  /\ resources = EmptyResources
  /\ idx = 1
  /\ keys = <<>>
  /\ log = <<>>
  /\ exc = "none"
  /\ db_result = "none"
  /\ pre_status = <<>>
  /\ prev_snapshot = {}
  /\ send_result = "none"
  /\ cfg_dirs = HostCfgDirs
  /\ host_kinds = CrawlKinds
  /\ call = NoCall
  /\ db = <<>>

InitAll == InitCrawl \/ InitFn

NextAll == Next \/ NextFn

SpecAll == InitAll /\ [][NextAll]_vars

\* =================================================================
\* Properties
\* =================================================================
LogIdx == 1..Len(log)

IsEv(i, sink, type, p) == log[i].sink = sink /\ log[i].type = type /\ log[i].pid = p

\* Calls made to a sink for pid p during tick t.
Dispatched(sink, type, p, t) == \E i \in LogIdx : IsEv(i, sink, type, p) /\ log[i].tick = t

\* Positions of the notifications (Start and Stop) sent for pid p.
NotesOf(p) == {i \in LogIdx : log[i].sink = "notify" /\ log[i].pid = p
                               /\ log[i].type \in {"Start", "Stop"}}

LastNote(p) == log[CHOOSE i \in NotesOf(p) : \A j \in NotesOf(p) : j <= i].type

AlertsInTick(t) == Cardinality({i \in LogIdx : log[i].type = "Alert" /\ log[i].tick = t})

\* The scan of the current tick has completed: running_scripts is its snapshot.
ScanDone ==
  \/ pc \in TryPcs \ {"scan"}
  \/ pc \in HandlerPcs /\ exc # "AttributeError"

\* The tick has run to its sleep, normal or cooldown.
TickEnded == pc \in {"sleep", "cooldown"}

Alternates(p) ==
  \A i, j \in NotesOf(p) :
    (i < j /\ log[i].type = log[j].type)
      => \E k \in NotesOf(p) : i < k /\ k < j /\ log[k].type # log[i].type

\* C1 (as claimed): every contiguous interval of a pid in the snapshots gets
\* exactly one Start notification and, once the pid has left a snapshot,
\* exactly one Stop notification: the notifications of a pid alternate
\* Start, Stop, Start, ..., and at the end of every tick whose scan completed
\* a pid of the snapshot has its Start as latest notification while a pid
\* outside the snapshot has none or a Stop.
C1_ExactlyOneStartStop ==
  \A p \in Pids :
    /\ Alternates(p)
    /\ (TickEnded /\ ScanDone) =>
         IF p \in current_pids
         THEN NotesOf(p) # {} /\ LastNote(p) = "Start"
         ELSE NotesOf(p) = {} \/ LastNote(p) = "Stop"

\* C2 (as claimed): when the probe returned its empty snapshot and nothing
\* else failed, the tick still dispatches, to both sinks, the Start of every
\* new pid and the Stop of every vanished pid.
C2_ProbeFailureDeliversEvents ==
  (TickEnded /\ ScanDone /\ resources = EmptyResources /\ exc # "OperationalError") =>
    \A p \in Pids :
      /\ (p \in current_pids \ KeySet(pre_status)) =>
           Dispatched("notify", "Start", p, tick) /\ Dispatched("persist", "Start", p, tick)
      /\ (p \in KeySet(pre_status) \ current_pids) =>
           Dispatched("notify", "Stop", p, tick) /\ Dispatched("persist", "Stop", p, tick)

\* C3 (as claimed): a failed persistence call, at connect or at execute,
\* never escapes log_script_event into the critical-error handler.
C3_PersistFailureHandledLocally ==
  db_result \in {"exec_error", "connect_error"} =>
    ~(exc = "OperationalError" /\ pc \in HandlerPcs)

\* Start and Stop calls of the current tick.
TickEvents == {i \in LogIdx : log[i].tick = tick /\ log[i].type \in {"Start", "Stop"}}

\* C4 (as claimed): the diff is applied to script_status as a whole before
\* any event is dispatched: once the scan is done the table is the pre-tick
\* table or the table reconciled with the snapshot, and it is the reconciled
\* one as soon as an event of the tick has been dispatched.
C4_AtomicDiff ==
  ScanDone =>
    /\ script_status = pre_status \/ KeySet(script_status) = current_pids
    /\ TickEvents # {} => KeySet(script_status) = current_pids

\* C4 (amended): the table is updated one pid at a time, interleaved with
\* the dispatch. At every point of a tick after the scan: its keys are
\* pre-tick keys or pids of the snapshot; the entries of pids that are both
\* are the pre-tick entries; a pid whose Start has been dispatched is in the
\* table; a pre-tick pid that left the table had its Stop dispatched to both
\* sinks; and no pid has two entries.
C4_IncrementalDiff ==
  ScanDone =>
    /\ KeySet(script_status) \subseteq KeySet(pre_status) \cup current_pids
    /\ \A p \in KeySet(pre_status) \cap current_pids :
         p \in KeySet(script_status) /\ DictGet(script_status, p) = DictGet(pre_status, p)
    /\ \A p \in Pids : Dispatched("notify", "Start", p, tick) => p \in KeySet(script_status)
    /\ \A p \in KeySet(pre_status) \ KeySet(script_status) :
         Dispatched("notify", "Stop", p, tick) /\ Dispatched("persist", "Stop", p, tick)
    /\ Cardinality(KeySet(script_status)) = Len(script_status)

\* C4 witness: mid-tick, an event has been dispatched and the table is
\* neither the pre-tick one nor the reconciled one.
C4_Witness ==
  /\ ScanDone
  /\ TickEvents # {}
  /\ script_status # pre_status
  /\ KeySet(script_status) # current_pids

\* C5: a pid has at most one entry in script_status, and between two Start
\* notifications of a pid a Stop notification of that pid was sent.
C5_NoDuplicateStart ==
  /\ Cardinality(KeySet(script_status)) = Len(script_status)
  /\ \A p \in Pids : \A i, j \in NotesOf(p) :
       (i < j /\ log[i].type = "Start" /\ log[j].type = "Start")
         => \E k \in NotesOf(p) : i < k /\ k < j /\ log[k].type = "Stop"

\* C5 witness: a pid was started, stopped and started again.
C5_Witness ==
  \E p \in Pids : \E i, j \in NotesOf(p) :
    i < j /\ log[i].type = "Start" /\ log[j].type = "Start"

\* C6 (as claimed): a pid in the snapshots of the previous and of the
\* current tick gets no call to either sink in the current tick.
C6_NoEventWhileRunning ==
  ScanDone =>
    \A p \in prev_snapshot \cap current_pids :
      ~(\E i \in LogIdx : log[i].pid = p /\ log[i].tick = tick)

\* C7: within one tick no pid gets both a Start and a Stop, and no Start
\* call follows a Stop call of the same tick.
C7_StartsBeforeStops ==
  \A i, j \in LogIdx :
    (log[i].tick = log[j].tick /\ log[i].type = "Start" /\ log[j].type = "Stop")
      => (i < j /\ log[i].pid # log[j].pid)

\* C7 witness: a tick that dispatched a Start and a Stop.
C7_Witness ==
  \E i, j \in LogIdx :
    log[i].tick = log[j].tick /\ log[i].type = "Start" /\ log[j].type = "Stop"

Ended == pc \in {"stopped", "crashed"}

\* C8: a tick that raised sends exactly one critical alert (none before the
\* handler ran, one from then on, never more than one per tick, none in a
\* tick that did not raise); from the handler the loop goes to the cooldown
\* and from the cooldown, 60 s later, to the scan of the next tick, unless
\* the stop signal arrives; the loop ends by the stop signal only.
C8_BackoffAndResume ==
  /\ [](/\ \A t \in 1..MaxTicks : AlertsInTick(t) <= 1
        /\ pc = "except" => AlertsInTick(tick) = 0
        /\ pc = "cooldown" => AlertsInTick(tick) = 1
        /\ pc \in TryPcs /\ tick <= MaxTicks => AlertsInTick(tick) = 0)
  /\ [][/\ pc = "except" => pc' \in {"cooldown", "crashed"}
        /\ pc = "cooldown" =>
             \/ pc' = "crashed"
             \/ pc' = "scan" /\ tick' = tick + 1 /\ now' = now + CooldownSleep
                /\ script_status' = script_status
        /\ (Ended' /\ ~Ended) => (InterruptInTry \/ InterruptInHandler)]_vars

\* C8 witness: a tick ran to its normal sleep right after a tick that raised
\* and sent its alert.
C8_Witness ==
  pc = "sleep" /\ tick > 1 /\ AlertsInTick(tick - 1) = 1

\* C9 (as claimed): the loop ends by the stop signal only, and it ends
\* gracefully (line 221-222) wherever the signal arrives.
C9_GracefulStop == Ended => pc = "stopped"

\* A process the scan can read and resolve to a tracked script.
Healthy(proc) ==
  /\ proc.name # NameDenied
  /\ ContainsPython(Lower(proc.name))
  /\ proc.access = "ok"
  /\ Tracked(get_script_path(proc))

\* C10 (as claimed): whatever per-process access errors the scan meets, at
\* the display name or in the resolver, the scan completes without raising
\* and its snapshot holds every process that can be read and resolved.
C10_PerProcessErrorSkipsOnly ==
  (pc \in {"probe", "except"} /\ exc \in {"none", "AttributeError"}) =>
    /\ pc = "probe"
    /\ \A p \in DOMAIN procs : Healthy(procs[p]) => p \in current_pids


\* ---------------------------------------------------------------- C11
\* No notification is posted twice: per tick at most one Start and one Stop
\* notification of a pid, and at most one alert.
NoRetry ==
  \A i, j \in LogIdx :
    (/\ i < j
     /\ log[i].sink = "notify" /\ log[j].sink = "notify"
     /\ log[i].type = log[j].type /\ log[i].pid = log[j].pid
     /\ log[i].tick = log[j].tick) => FALSE

\* The step taken after a notification of a Start or Stop whose post failed.
AfterFailedSend ==
  /\ send_result \in SendFailures
  /\ pc \in {"start_log", "stop_log"}
  /\ pc' # "stopped"

\* C11: a failed notification (a status other than 204, or an exception of
\* the transport) is never retried and never becomes an error of the loop:
\* the tick goes on to the persistence call for the same event, leaves S
\* alone after a Start and deletes the entry after a Stop, exactly as after
\* a notification that succeeded; a failed critical alert is followed by the
\* cooldown like a delivered one.
C11_NotifyFailureIgnored ==
  /\ [](NoRetry /\ exc # "RequestException")
  /\ [](send_result \in SendFailures => pc # "except" \/ exc # "none")
  /\ [][AfterFailedSend =>
          /\ log' = Append(log, [log[Len(log)] EXCEPT !.sink = "persist"])
          /\ pc = "start_log" => script_status' = script_status
          /\ (pc = "stop_log" /\ ~Raises(db_result')) =>
                 script_status' = DictDel(script_status, keys[idx])
          /\ pc' \in {"start", "stop", "except"}
          /\ pc' = "except" <=> Raises(db_result')]_vars
  /\ [][(send_result \in SendFailures /\ pc = "cooldown" /\ pc' # "crashed") =>
          pc' = "scan" /\ log' = log /\ script_status' = script_status]_vars

\* A Stop notification failed on the transport, and the end record was
\* written and the entry deleted all the same.
C11_Witness ==
  /\ pc = "stop"
  /\ Len(log) >= 2
  /\ log[Len(log)].sink = "persist" /\ log[Len(log)].type = "Stop"
  /\ log[Len(log) - 1].sink = "notify" /\ log[Len(log) - 1].type = "Stop"
  /\ ~HasKey(script_status, log[Len(log)].pid)
  /\ db_result = "ok"
  /\ send_result = "exception"

\* ---------------------------------------------------------------- C12
\* C12: check_system_resources never raises; when any of its metric
\* sources fails (RAM, CPU, the partition list, a drive's usage, alone or
\* together) it returns the empty snapshot, and the full one otherwise.
C12_ProbeNeverRaises ==
  (call.fn = "check_system_resources" /\ call.done) =>
     /\ ~call.raised
     /\ call.failing # {} => call.snapshot = EmptyResources
     /\ call.failing = {} => call.snapshot = FullResources

\* The call returned while only a drive's usage could not be read.
C12_Witness ==
  /\ call.fn = "check_system_resources" /\ call.done
  /\ call.failing = {"drive_usage"}
  /\ call.snapshot = EmptyResources

\* ---------------------------------------------------------------- C13
StopNotes(p) == {i \in LogIdx : IsEv(i, "notify", "Stop", p)}

\* C13 (as claimed): a pid of an earlier snapshot that a completed scan no
\* longer finds gets exactly one Stop; its duration (time of the Stop minus
\* the start time it carries) is not negative, and the Stop is the one of
\* the tick that first found the pid absent, measured from the pid's Start
\* to that tick.
C13_OneStopWithDuration ==
  \A p \in Pids :
    /\ \A i, j \in StopNotes(p) : log[i].start = log[j].start => i = j
    /\ \A i \in StopNotes(p) : log[i].time - log[i].start >= 0
    /\ (TickEnded /\ ScanDone /\ p \in KeySet(pre_status) \ current_pids) =>
         \E i \in StopNotes(p) :
           /\ log[i].tick = tick
           /\ log[i].start = DictGet(pre_status, p).start_time
           /\ log[i].time - log[i].start = now - DictGet(pre_status, p).start_time

\* ---------------------------------------------------------------- C14
\* A finished call of get_script_path on a process that could be read.
Resolved == call.fn = "get_script_path" /\ call.done /\ call.proc.access = "ok"

\* The conditions of the four rules, each taken on its own.
M1(c) == {"-m", "scrapy", "crawl"} \subseteq Range(c)
M2(c) == \E i \in DOMAIN c : EndsWithPy(c[i]) /\ IsAbs(c[i])
M3(c) == Len(c) >= 2 /\ EndsWithPython(c[1]) /\ EndsWithPy(c[2])
M4(c) == "-i" \in Range(c) \/ \A i \in DOMAIN c : ~EndsWithPy(c[i])

\* What the scrapy branch can return, and what the absolute-path rule can.
FrameworkResults ==
  {NoneVal, "/proj/spiders/news_spider.py"}
    \cup {"Spider: " \o t \o " (Project root not found)" : t \in Tokens}
    \cup {"Not found in " \o d : d \in Dirs}
DirectResults(c) == {AbsPath(c[i]) : i \in {j \in DOMAIN c : EndsWithPy(c[j]) /\ IsAbs(c[j])}}

\* C14: the rules are tried in the order scrapy job, absolute .py argument,
\* script as second argument, interactive, unresolved, and the first rule
\* whose condition holds gives the result; a scrapy command line that also
\* has an absolute .py argument gets the scrapy branch's result, never that
\* path.
C14_RuleOrder ==
  Resolved =>
    LET c == call.proc.cmdline
        v == call.value
    IN /\ M1(c) => v \in FrameworkResults /\ v \notin DirectResults(c)
       /\ (~M1(c) /\ M2(c)) =>
            v = AbsPath(c[CHOOSE i \in DOMAIN c :
                            /\ EndsWithPy(c[i]) /\ IsAbs(c[i])
                            /\ \A j \in 1..(i - 1) : ~(EndsWithPy(c[j]) /\ IsAbs(c[j]))])
       /\ (~M1(c) /\ ~M2(c) /\ M3(c)) => v = AbsPath(PathJoin(call.proc.cwd, c[2]))
       /\ (~M1(c) /\ ~M2(c) /\ ~M3(c) /\ M4(c)) => v = Interactive
       /\ (~M1(c) /\ ~M2(c) /\ ~M3(c) /\ ~M4(c)) => v = NoneVal

\* A scrapy command line with an absolute .py argument resolved to the
\* spider's file.
C14_Witness ==
  /\ Resolved
  /\ M1(call.proc.cmdline) /\ M2(call.proc.cmdline)
  /\ call.value = "/proj/spiders/news_spider.py"

\* ---------------------------------------------------------------- C15
\* The command line has a token that looks like a source file.
HasPyToken(c) == \E i \in DOMAIN c : EndsWithPy(c[i])

\* C15 (as claimed): the interactive marker is returned exactly when the
\* command line has no source-file-like token, whether or not -i is there.
C15_MarkerIffNoPyToken ==
  Resolved => (call.value = Interactive <=> ~HasPyToken(call.proc.cmdline))

\* C15 (amended): the interactive marker is returned exactly when the
\* process could be read and its command line is not a scrapy crawl command, has no absolute .py argument,
\* is not an interpreter followed by a .py argument, and either has the -i
\* flag or has no token ending in .py. So a command line with -i can get the
\* marker although it names a source file, and a crawl command line does not
\* get it although it names none.
C15_MarkerByRuleFour ==
  (call.fn = "get_script_path" /\ call.done) =>
    LET c == call.proc.cmdline
    IN call.value = Interactive <=>
         /\ call.proc.access = "ok"
         /\ ~M1(c) /\ ~M2(c) /\ ~M3(c)
         /\ "-i" \in Range(c) \/ ~HasPyToken(c)

\* python -i b.py: the marker is returned for a command line that has a
\* source-file-like token.
C15_Witness ==
  /\ Resolved
  /\ call.proc.cmdline = <<"python", "-i", "b.py">>
  /\ call.value = Interactive

\* ---------------------------------------------------------------- C16
\* The start directory and the directories above it.
AncestorsOf(d) == {d, DirName(d), DirName(DirName(d)), DirName(DirName(DirName(d)))}

\* The marked directories of AncestorsOf(d) that have no marked directory
\* of AncestorsOf(d) below them.
NearestRoots(d) ==
  {r \in AncestorsOf(d) \cap cfg_dirs :
     \A q \in AncestorsOf(d) \cap cfg_dirs : r \in AncestorsOf(q) => q = r}

\* A crawl command line with a job name after "crawl".
CrawlWithJob(c) == M1(c) /\ \E i \in 1..(Len(c) - 1) : c[i] = "crawl" /\ \A j \in 1..(i - 1) : c[j] # "crawl"
JobName(c) == c[1 + CHOOSE i \in DOMAIN c : c[i] = "crawl" /\ \A j \in 1..(i - 1) : c[j] # "crawl"]

RootNotFound(name) == "Spider: " \o name \o " (Project root not found)"

\* The crawl processes of the table a scan has just read that have no
\* scrapy.cfg in or above their working directory.
RootlessCrawls ==
  {p \in DOMAIN procs :
     /\ ContainsPython(Lower(procs[p].name)) /\ procs[p].access = "ok"
     /\ CrawlWithJob(procs[p].cmdline)
     /\ AncestorsOf(procs[p].cwd) \cap cfg_dirs = {}}

\* C16: find_scrapy_project_root returns, for every start directory, the
\* nearest directory among the start directory and its ancestors that holds
\* scrapy.cfg, and None when there is none; in that case get_script_path
\* returns the "Project root not found" string for a crawl command line and
\* raises nothing; and a scan that meets such a process lists it under that
\* string and goes on: it is the unreadable name alone that aborts a scan.
C16_NearestRootOrNotFound ==
  /\ (call.fn = "find_scrapy_project_root" /\ call.done) =>
       /\ ~call.raised
       /\ IF NearestRoots(call.dir) = {} THEN call.value = NoneVal
          ELSE call.value \in NearestRoots(call.dir)
  /\ (/\ Resolved /\ CrawlWithJob(call.proc.cmdline)
      /\ AncestorsOf(call.proc.cwd) \cap cfg_dirs = {}) =>
       /\ ~call.raised
       /\ call.value = RootNotFound(JobName(call.proc.cmdline))
  /\ (pc \in {"probe", "except"} /\ procs # <<>>) =>
       /\ pc = "except" <=> \E q \in DOMAIN procs : procs[q].name = NameDenied
       /\ \A p \in RootlessCrawls :
            (\A q \in DOMAIN procs : q <= p => procs[q].name # NameDenied) =>
              \E i \in DOMAIN running_scripts :
                running_scripts[i] =
                  [pid |-> p, script_path |-> RootNotFound(JobName(procs[p].cmdline))]

\* The root is found two levels above the start directory, below another
\* marked directory.
C16_WitnessNearest ==
  /\ call.fn = "find_scrapy_project_root" /\ call.done
  /\ call.dir = "/proj/sub/deep"
  /\ cfg_dirs = {"/", "/proj"}
  /\ call.value = "/proj"

\* A scan has listed a crawl process without project root and is at the
\* resource probe.
C16_Witness ==
  /\ pc = "probe"
  /\ RootlessCrawls # {}
  /\ \E i \in DOMAIN running_scripts :
       running_scripts[i].script_path = RootNotFound("news")

\* ---------------------------------------------------------------- C17
Markers == {Interactive, NoneVal}

\* C17: a process resolved to the interactive marker or to None is in no
\* snapshot: no entry of the snapshot list, no entry of script_status and
\* no Start or Stop call, to either sink, has one of the two as its path.
C17_NoMarkerTracked ==
  /\ \A i \in DOMAIN running_scripts : running_scripts[i].script_path \notin Markers
  /\ \A i \in DOMAIN script_status : script_status[i].script_path \notin Markers
  /\ \A i \in LogIdx : log[i].type \in {"Start", "Stop"} => log[i].path \notin Markers

\* A scan met an interactive interpreter and a script: the snapshot holds
\* the script alone.
C17_Witness ==
  /\ pc = "probe"
  /\ DOMAIN procs = {100, 101}
  /\ ContainsPython(Lower(procs[100].name))
  /\ get_script_path(procs[100]) = Interactive
  /\ current_pids = {101}

\* ---------------------------------------------------------------- C18
\* The end record of log[Len(log)] has just been written without error.
JustEnded ==
  /\ Len(log) > 0
  /\ log[Len(log)].sink = "persist" /\ log[Len(log)].type = "Stop"
  /\ db_result = "ok"

LastKey == RowKey(log[Len(log)].pid, log[Len(log)].path, log[Len(log)].start)

RowsOf(k) == {i \in DOMAIN db : db[i].key = k}

\* C18 (as claimed): an end record is an update of the start record that
\* the Start of the same tracked pid wrote, never a new row: for every end
\* record written, the start record of its entry had been handed to
\* log_script_event before, and the row it left, if the table took it, is
\* now the one closed row of that entry; and every row of the table was
\* written by a start record, one row for each.
C18_EndClosesOwnStart ==
  /\ JustEnded =>
       /\ \E j \in LogIdx : /\ IsEv(j, "persist", "Start", LastKey.pid)
                            /\ log[j].start = LastKey.start_time
       /\ Cardinality(RowsOf(LastKey)) <= 1
       /\ \A i \in RowsOf(LastKey) :
            db[i].event_type = "end" /\ db[i].end_time = log[Len(log)].time
  /\ \A i \in DOMAIN db :
       \E j \in LogIdx : /\ IsEv(j, "persist", "Start", db[i].key.pid)
                         /\ log[j].start = db[i].key.start_time
  /\ \A i, j \in DOMAIN db : db[i].key = db[j].key => i = j

\* ---------------------------------------------------------------- C19
\* C19: an entry of script_status is never changed between its creation
\* and its removal: no step changes the path or the start time of a pid that
\* stays a key, also when the snapshot lists the pid under another path;
\* the entry holds the path and the time of the step that created it, and
\* every Start and Stop call carries the path and start time of its pid's
\* entry, so a Stop carries what was recorded at the Start.
C19_EntriesImmutable ==
  /\ [][\A p \in KeySet(script_status) \cap KeySet(script_status') :
          DictGet(script_status', p) = DictGet(script_status, p)]_vars
  /\ [][\A p \in KeySet(script_status') \ KeySet(script_status) :
          /\ pc = "start" /\ p = running_scripts[idx].pid
          /\ DictGet(script_status', p) =
               [pid |-> p, script_path |-> running_scripts[idx].script_path,
                start_time |-> now]]_vars
  /\ [][(Len(log') > Len(log) /\ log'[Len(log')].type \in {"Start", "Stop"}) =>
          LET ev == log'[Len(log')]
          IN /\ HasKey(script_status, ev.pid)
             /\ ev.path = DictGet(script_status, ev.pid).script_path
             /\ ev.start = DictGet(script_status, ev.pid).start_time]_vars

\* A pid is a key under one path while the snapshot of the tick lists it
\* under another, and the start loop has passed it.
C19_Witness ==
  /\ pc = "stop"
  /\ \E i \in DOMAIN running_scripts :
       /\ HasKey(script_status, running_scripts[i].pid)
       /\ DictGet(script_status, running_scripts[i].pid).script_path
            # running_scripts[i].script_path
       /\ DictGet(script_status, running_scripts[i].pid).start_time < now
  /\ \E j \in LogIdx : log[j].type = "Stop"

\* ---------------------------------------------------------------- C20
\* The scan of the current tick raised (the name of a process was None at
\* line 166) and the tick is past it.
ScanAborted == exc = "AttributeError" /\ pc \in HandlerPcs \cup {"stopped", "crashed"}

\* C20: a tick whose scan raises leaves script_status as it was and calls
\* neither sink with a Start or a Stop, so no pid gets a Stop because the
\* scan did not reach it; the only event of the tick is the one alert. The
\* scan is the one step of a tick that can raise before the start loop.
C20_AbortedScanChangesNothing ==
  /\ [](ScanAborted =>
          /\ script_status = pre_status
          /\ TickEvents = {}
          /\ AlertsInTick(tick) <= 1
          /\ pc = "cooldown" => AlertsInTick(tick) = 1)
  /\ [][(pc \in {"scan", "probe"} /\ pc' \in HandlerPcs) =>
          pc = "scan" /\ exc' = "AttributeError" /\ script_status' = script_status
            /\ log' = log]_vars
  /\ [][(pc = "scan" /\ pc' # "stopped"
          /\ \E q \in DOMAIN procs' : procs'[q].name = NameDenied) =>
          pc' = "except" /\ exc' = "AttributeError"]_vars
  /\ [][(exc = "AttributeError" /\ pc \in HandlerPcs) =>
          pc' \in HandlerPcs \cup {"scan", "crashed"}]_vars

\* The scan raised while a tracked pid had not been reached, and the tick
\* ended in the cooldown with the pid still a key and no Stop.
C20_Witness ==
  /\ pc = "cooldown" /\ exc = "AttributeError"
  /\ script_status # <<>>
  /\ \E p \in KeySet(script_status) : p \notin current_pids
  /\ TickEvents = {}
====
